---- MODULE Spec2Model ----
(***************************************************************************)
(* The autonomous content agent of autonomous-agent/content_agent.py:      *)
(* the scheduler loop run_autonomous_cycle, the five source adapters, the  *)
(* two generator steps, the Publisher (update_course_repo and              *)
(* update_summary_file) acting on the remote content tree, and the deploy  *)
(* hook.  Every remote call (HTTP fetch, generator call, content-tree      *)
(* call, workflow dispatch) is one step, so that external edits of the     *)
(* content tree can fall between a read and the write that follows it.     *)
(***************************************************************************)
EXTENDS Integers, Sequences, FiniteSets, TLC

\* ---------------------------------------------------------------- bounds
\* Calendar days the model distinguishes (datetime.now() seen as a day).
MaxDay == 2
\* Publisher runs that reach the content tree, over the whole behaviour.
MaxPublish == 2
\* External edits of the content tree, over the whole behaviour.
MaxEdits == 1
\* Entries of one origin's feed or listing.
MaxFeed == 1

\* ------------------------------------------------------- program constants
LongInterval == 6 * 3600
ShortInterval == 1800
YoutubeWindowDays == 7
BlogWindowDays == 30
FeedCap == 5
ListingCap == 10
NumChannels == 3
NumSubreddits == 2
\* Seconds: the total timeout of a request of the session of line 72.
SessionTimeout == 300

Days == 1..MaxDay
\* Chapter texts the generator can return, and the text of an external edit.
Contents == {"a", "b"}
External == "x"
Absent == "absent"
\* What a fetch gives an adapter: the payload of one origin, or an exception;
\* the exception is at once (connection refused, HTTP error), or it is the
\* asyncio.TimeoutError the session raises when the origin has not answered
\* within the total timeout of aiohttp.ClientSession() (line 72: the default).
Fetched(items) == [ok |-> TRUE, items |-> items, timeout |-> FALSE]
Fail == [ok |-> FALSE, items |-> << >>, timeout |-> FALSE]
TimedOut == [ok |-> FALSE, items |-> << >>, timeout |-> TRUE]
\* A feed entry: its age in seconds (the time since it was published) or no
\* usable date, and whether it has the fields the record is built from (title,
\* link, summary, and author for YouTube).
Entry(age) == [dated |-> TRUE, age |-> age, complete |-> TRUE]
Incomplete(age) == [dated |-> TRUE, age |-> age, complete |-> FALSE]
Undated == [dated |-> FALSE, age |-> 0, complete |-> TRUE]

SecondsPerDay == 86400
Window(days) == days * SecondsPerDay
\* The offsets from UTC, in seconds, of the hosts considered: datetime.now()
\* (lines 106, 193) is the local time of the host without a zone, and
\* datetime(*entry.published_parsed[:6]) is the UTC time of publication, so
\* their difference is the age of the entry plus the offset of the host.
ZoneOffsets == {0 - 3600, 0, 3600}

\* ------------------------------------------------------------- sequences
Prefix(s, n) == IF Len(s) <= n THEN s ELSE SubSeq(s, 1, n)

RECURSIVE SeqsUpTo(_, _)
SeqsUpTo(S, n) ==
  IF n = 0 THEN {<< >>}
  ELSE LET shorter == SeqsUpTo(S, n - 1)
       IN  shorter \cup {Append(s, x) : s \in {t \in shorter : Len(t) = n - 1}, x \in S}

Count(s, x) == Cardinality({i \in DOMAIN s : s[i] = x})

\* --------------------------------------------------------- source adapters
Tags == {"apple_updates", "youtube_videos", "github_trending", "swift_blog",
         "reddit_discussions"}
EmptySnapshot == [t \in Tags |-> << >>]
NoFailures == [t \in Tags |-> {}]
\* No adapter has returned in this cycle.
NoFetch == [tag |-> "none", inputs |-> << >>]
\* The adapter of a tag has not completed.
NotYet == << >>
NoneGiven == [t \in Tags |-> NotYet]

Record(tag, origin, idx) == [tag |-> tag, origin |-> origin, idx |-> idx]

\* The loop over the entries of one feed (lines 103-113, 191-199).  At an entry
\* without a usable published date datetime(*entry.published_parsed[:6]) raises;
\* at an entry the comparison of line 106 (193) lets through and that lacks a
\* field of the record, building the record raises (another entry is skipped
\* before its fields are read).  Either ends the loop; the records appended
\* before that stay in the list.  The comparison is on the local time of the
\* host minus the UTC time of publication: the age plus the offset zone.
RECURSIVE FeedLoop(_, _, _, _, _, _)
FeedLoop(tag, origin, entries, window, zone, j) ==
  IF j > Len(entries) \/ ~entries[j].dated THEN << >>
  ELSE IF entries[j].age + zone <= window
         THEN IF entries[j].complete
                THEN << Record(tag, origin, j) >>
                     \o FeedLoop(tag, origin, entries, window, zone, j + 1)
                ELSE << >>
         ELSE FeedLoop(tag, origin, entries, window, zone, j + 1)

\* One origin of a feed adapter: the fetch raises (Fail) and the except clause
\* leaves the list as it is, or the first FeedCap entries are filtered.
FeedOrigin(tag, origin, feed, window, zone) ==
  IF ~feed.ok THEN << >>
  ELSE FeedLoop(tag, origin, Prefix(feed.items, FeedCap), window, zone, 1)

\* The loop over the items of an HTML listing (lines 132-143, 161-173): an item
\* is "ok", "untitled" (the title or date element is missing: skipped) or
\* "badlink" (item.find('a')['href'] raises KeyError and ends the loop).
RECURSIVE ListingLoop(_, _, _)
ListingLoop(tag, items, j) ==
  IF j > Len(items) \/ items[j] = "badlink" THEN << >>
  ELSE (IF items[j] = "ok" THEN << Record(tag, 1, j) >> ELSE << >>)
       \o ListingLoop(tag, items, j + 1)

ListingOrigin(tag, page) ==
  IF ~page.ok THEN << >>
  ELSE ListingLoop(tag, Prefix(page.items, ListingCap), 1)

\* The loop over the posts of one subreddit (lines 218-230): a post is
\* "relevant" (a keyword occurs in its title), "other", or "bad" (a missing key
\* raises KeyError and ends the loop).
RECURSIVE RedditLoop(_, _, _)
RedditLoop(origin, posts, j) ==
  IF j > Len(posts) \/ posts[j] = "bad" THEN << >>
  ELSE (IF posts[j] = "relevant" THEN << Record("reddit_discussions", origin, j) >> ELSE << >>)
       \o RedditLoop(origin, posts, j + 1)

RedditOrigin(origin, listing) ==
  IF ~listing.ok THEN << >>
  ELSE RedditLoop(origin, listing.items, 1)

\* The for loop over the origins of a multi-origin adapter: each origin has its
\* own try/except inside the loop, so the list keeps growing after a fault.
\* The loop over the channels with one try around it: the first fetch that
\* raises ends it.
RECURSIVE YoutubeChannels_OneTry(_, _, _)
YoutubeChannels_OneTry(feeds, zone, i) ==
  IF i > Len(feeds) \/ ~feeds[i].ok THEN << >>
  ELSE FeedOrigin("youtube_videos", i, feeds[i], Window(YoutubeWindowDays), zone)
       \o YoutubeChannels_OneTry(feeds, zone, i + 1)
RECURSIVE YoutubeChannels(_, _, _)
YoutubeChannels(feeds, zone, i) ==
  IF i > Len(feeds) THEN << >>
  ELSE FeedOrigin("youtube_videos", i, feeds[i], Window(YoutubeWindowDays), zone)
       \o YoutubeChannels(feeds, zone, i + 1)

RECURSIVE RedditFeeds(_, _)
RedditFeeds(listings, i) ==
  IF i > Len(listings) THEN << >>
  ELSE RedditOrigin(i, listings[i]) \o RedditFeeds(listings, i + 1)

\* An adapter call: the list it returns, and whether an exception left it.
Returned(records) == [raised |-> FALSE, records |-> records]
Raised == [raised |-> TRUE, records |-> << >>]

scrape_youtube_content(feeds, zone) == Returned(YoutubeChannels(feeds, zone, 1))
\* scrape_apple_docs without its try/except.
scrape_apple_docs_NoTry(page) ==
  IF page.ok THEN Returned(ListingOrigin("apple_updates", page)) ELSE Raised
scrape_apple_docs(page) == Returned(ListingOrigin("apple_updates", page))
scrape_github_trending(page) == Returned(ListingOrigin("github_trending", page))
scrape_swift_blog(feed, zone) ==
  Returned(FeedOrigin("swift_blog", 1, feed, Window(BlogWindowDays), zone))
scrape_reddit_content(listings) == Returned(RedditFeeds(listings, 1))

\* The five tags in the order of the adapter calls of lines 74-86, and the
\* call behind each tag, on the payloads its fetches get.
SourceOrder == << "apple_updates", "youtube_videos", "github_trending", "swift_blog",
                 "reddit_discussions" >>
Called(tag, inputs, zone) ==
  CASE tag = "apple_updates" -> scrape_apple_docs(inputs[1])
    [] tag = "youtube_videos" -> scrape_youtube_content(inputs, zone)
    [] tag = "github_trending" -> scrape_github_trending(inputs[1])
    [] tag = "swift_blog" -> scrape_swift_blog(inputs[1], zone)
    [] tag = "reddit_discussions" -> scrape_reddit_content(inputs)

\* content[tag] = ... of lines 74-86: the list goes under the adapter's key.
\* An assignment that starts the snapshot again with the one list alone.
Assigned_Restart(snapshot, tag, records) ==
  [t \in Tags |-> IF t = tag THEN records ELSE << >>]
Assigned(snapshot, tag, records) == [snapshot EXCEPT ![tag] = records]

\* The origins of an input whose fetch failed.
FailedOrigins(inputs) == {i \in DOMAIN inputs : ~inputs[i].ok}
\* The seconds an adapter call spends in fetches that end at the timeout: its
\* origins are fetched one after the other.
TimeoutWait(inputs) ==
  Cardinality({i \in DOMAIN inputs : inputs[i].timeout}) * SessionTimeout


\* ------------------------------------------------------------ content tree
\* A line of book/src/SUMMARY.md; open: it is the last line and the content
\* does not end with a newline.
Text == [kind |-> "text", day |-> 0, open |-> FALSE]
Blank == [kind |-> "blank", day |-> 0, open |-> FALSE]
Header == [kind |-> "header", day |-> 0, open |-> FALSE]
ExternalLine == [kind |-> "external", day |-> 0, open |-> FALSE]
\* new_line of line 362, for the chapter of the day in timestamp.
Reference(ts) == [kind |-> "reference", day |-> ts, open |-> FALSE]
Unterminated(line) == [line EXCEPT !.open = TRUE]
\* Does the content end without a newline?
EndsOpen(lines) == lines # << >> /\ lines[Len(lines)].open
\* The content with a newline put after an open last line.
CloseLast(lines) ==
  IF EndsOpen(lines) THEN [lines EXCEPT ![Len(lines)].open = FALSE] ELSE lines
\* An open last line with new_line put right after it: one line that is
\* neither of the two, and that still holds the header text when the open line
\* did.
Glued(line, ts) ==
  IF line.kind = "header" THEN [kind |-> "header", day |-> ts, open |-> FALSE] ELSE Text

\* The version token of an artifact: the blob hash of its content.
Sha(text) == << "sha", text >>
NoSha == << "sha", "none" >>
NoFile == [content |-> << >>, sha |-> << "sha", << >> >>]

\* "# Auto-Generated Content" in current_content (line 364).
HasHeader_Never(lines) == FALSE
HasHeader(lines) == \E i \in DOMAIN lines : lines[i].kind = "header"

\* Lines 362-367: the content update_summary_file writes back.  The additions
\* are text put at the end of the text read: after a content that ends with a
\* newline "\n# Auto-Generated Content\n\n" is a blank line, the header and a
\* blank line, and new_line is a line of its own; after an open last line the
\* first "\n" only ends that line, and new_line without a header to add is
\* glued to it.
NewSummary(current_content, ts) ==
  IF ~HasHeader(current_content)
    THEN (IF EndsOpen(current_content)
            THEN CloseLast(current_content) \o << Header, Blank >>
            ELSE current_content \o << Blank, Header, Blank >>)
         \o << Reference(ts) >>
    ELSE IF EndsOpen(current_content)
           THEN SubSeq(current_content, 1, Len(current_content) - 1)
                \o << Glued(current_content[Len(current_content)], ts) >>
           ELSE current_content \o << Reference(ts) >>

\* The token update_file is given for the chapter (line 335) and for the index
\* (line 373): the one of the object get_contents returned.
ChapterToken_Fresh(file_sha, current) == current
ChapterToken(file_sha, current) == file_sha
SummaryToken(file, current) == file.sha

\* The content tree's side of the calls: get_contents finds an artifact that
\* exists, update_file is accepted when the token is the artifact's current
\* one, create_file when the path is free; any call can fail (auth, network).
Found(artifact, fault) == ~fault /\ artifact # Absent
UpdateAccepted(token, artifact, fault) == ~fault /\ token = Sha(artifact)
CreateAccepted(artifact, fault) == ~fault /\ artifact = Absent

\* ------------------------------------------------------------- generator
NoInsights == "{}"
SomeInsights == "insights"
\* What the generator call of analyze_content can come to.
AnalysisReplies == {"insights", "empty", "malformed", "error"}

\* new_content: the dict json.loads returns, or {} after a fault.
NoContent == << >>
Chapter(text) == "new_chapter" :> text
CodeOnly == "code_updates" :> "code"
\* What the generator call of generate_course_updates can come to: a fault
\* ("malformed", "error") or a parsed dict.
GenerationReplies(withChapter) ==
  {[fault |-> f, dict |-> NoContent] : f \in {"malformed", "error"}}
  \cup {[fault |-> "none", dict |-> d] : d \in {NoContent, CodeOnly}}
  \cup (IF withChapter
          THEN {[fault |-> "none", dict |-> Chapter(c)] : c \in Contents}
          ELSE {})

\* ------------------------------------------------------------------ state
VARIABLES
  zone,          \* the offset from UTC of the host's local time, in seconds
  given,         \* per tag, the payloads of the adapter that completed (OrderSpec)
  pc,            \* where run_autonomous_cycle stands
  waited,        \* seconds scrape_all_sources has spent in fetches that timed out
  sleepSecs,     \* the argument of the asyncio.sleep in progress, else 0
  escaped,       \* an exception reached the except clause of line 64 in this cycle
  content,       \* content_data
  failed,        \* per tag, the origins whose fetch failed in this cycle
  fetched,       \* the adapter that returned last and what its fetches gave it
  insights,      \* insights
  analysis,      \* how the generator call of analyze_content ended in this cycle
  calls,         \* the generator calls of this cycle, in order
  new_content,   \* new_content
  timestamp,     \* timestamp of update_course_repo (0: not set)
  file_sha,      \* file.sha of line 335 (NoSha: get_contents raised)
  summary_file,  \* summary_file of update_summary_file
  ops,           \* the content-tree writes attempted in this cycle, in order
  hook,          \* deploy_updates in this cycle: "none", "dispatched" or "failed"
  day,           \* the calendar day datetime.now() gives
  chapters,      \* content tree: the chapter artifact of each day
  summary,       \* content tree: the lines of book/src/SUMMARY.md
  history,       \* the chapter writes the content tree accepted, in order
  publishes,     \* Publisher runs that reached the content tree
  edits,         \* external edits of the content tree so far
  faulted        \* some content-tree call of the Publisher has failed

locals == << content, failed, fetched, insights, analysis, calls, new_content, timestamp,
             file_sha, summary_file, ops, hook >>
tree == << chapters, summary, history, edits >>
host == << zone, given >>
vars == << host, pc, waited, sleepSecs, escaped, locals, day, tree, publishes, faulted >>

ScrapeSteps == {"scrape_apple", "scrape_youtube", "scrape_github", "scrape_blog",
                "scrape_reddit"}

\* The start of a cycle (line 44): nothing is kept from the cycle before.
FreshLocals ==
  /\ content = EmptySnapshot /\ failed = NoFailures /\ fetched = NoFetch
  /\ insights = NoInsights /\ analysis = "pending" /\ calls = << >>
  /\ new_content = NoContent /\ timestamp = 0 /\ file_sha = NoSha
  /\ summary_file = NoFile /\ ops = << >> /\ hook = "none"

\* The agent starts at start, on a host at the offset z from UTC.
Started(start, z) ==
  /\ zone = z /\ given = NoneGiven
  /\ pc = start /\ waited = 0 /\ sleepSecs = 0 /\ escaped = FALSE
  /\ FreshLocals
  /\ day = 1
  /\ chapters = [d \in Days |-> Absent]
  /\ summary = << Text >>
  /\ history = << >>
  /\ publishes = 0 /\ edits = 0 /\ faulted = FALSE

\* A host on UTC.
Init == Started("scrape_apple", 0)


\* ---------------------------------------------------------- the scheduler
\* The except clause of run_autonomous_cycle (lines 64-66).
HandlerInterval_Long == LongInterval
HandlerInterval == ShortInterval
\* The sleep after a cycle no exception left (line 62).
CleanInterval == LongInterval

\* An exception leaves a step of the cycle and reaches line 64.
ToHandler ==
  /\ pc' = "sleep" /\ sleepSecs' = HandlerInterval /\ escaped' = TRUE

\* asyncio.sleep returns and the loop starts the next cycle (lines 42-47).
Sleep ==
  /\ pc = "sleep"
  /\ pc' = "scrape_apple" /\ sleepSecs' = 0 /\ escaped' = FALSE
  /\ content' = EmptySnapshot /\ failed' = NoFailures /\ fetched' = NoFetch
  /\ insights' = NoInsights /\ analysis' = "pending" /\ calls' = << >>
  /\ new_content' = NoContent /\ timestamp' = 0 /\ file_sha' = NoSha
  /\ summary_file' = NoFile /\ ops' = << >> /\ hook' = "none"
  /\ \E d \in {day, IF day < MaxDay THEN day + 1 ELSE day} : day' = d
  /\ waited' = 0
  /\ UNCHANGED << host, tree, publishes, faulted >>

\* ----------------------------------------------------- scrape_all_sources
\* One adapter call of scrape_all_sources (lines 74-86) and what follows it.
Adapter(step, tag, result, inputs, next) ==
  /\ pc = step
  /\ IF result.raised
       THEN ToHandler /\ UNCHANGED << content, failed, fetched >>
       ELSE /\ content' = Assigned(content, tag, result.records)
            /\ failed' = [failed EXCEPT ![tag] = FailedOrigins(inputs)]
            /\ fetched' = [tag |-> tag, inputs |-> inputs]
            /\ pc' = next
            /\ UNCHANGED << sleepSecs, escaped >>
  /\ waited' = waited + TimeoutWait(inputs)
  /\ UNCHANGED << host, insights, analysis, calls, new_content, timestamp,
                  file_sha, summary_file, ops, hook, day, tree, publishes, faulted >>

ScrapeApple(page) ==
  Adapter("scrape_apple", "apple_updates", scrape_apple_docs(page), << page >>,
          "scrape_youtube")
ScrapeYoutube(feeds) ==
  Adapter("scrape_youtube", "youtube_videos", scrape_youtube_content(feeds, zone), feeds,
          "scrape_github")
ScrapeGithub(page) ==
  Adapter("scrape_github", "github_trending", scrape_github_trending(page), << page >>,
          "scrape_blog")
ScrapeBlog(feed) ==
  Adapter("scrape_blog", "swift_blog", scrape_swift_blog(feed, zone), << feed >>,
          "scrape_reddit")
ScrapeReddit(listings) ==
  Adapter("scrape_reddit", "reddit_discussions", scrape_reddit_content(listings),
          listings, "analyze")

\* The adapter call of a tag completes and its list goes under its key, with
\* the calls of lines 74-86 completing in any order (pc = "scrape_all": the
\* calls have been made): the scheduling the completion-order rule of the
\* snapshot is about.  scrape_all_sources itself awaits each call before it
\* makes the next, which is the one order SourceOrder of these.  The list of
\* an adapter is local to its call (lines 92, 122, 152, 182, 208), so nothing
\* of the snapshot changes between completions.
Complete(tag, inputs) ==
  /\ pc = "scrape_all" /\ given[tag] = NotYet
  /\ LET result == Called(tag, inputs, zone)
     IN  IF result.raised
           THEN ToHandler /\ UNCHANGED << content, failed, fetched, given >>
           ELSE /\ content' = Assigned(content, tag, result.records)
                /\ failed' = [failed EXCEPT ![tag] = FailedOrigins(inputs)]
                /\ fetched' = [tag |-> tag, inputs |-> inputs]
                /\ given' = [given EXCEPT ![tag] = inputs]
                /\ pc' = IF \A t \in Tags \ {tag} : given[t] # NotYet
                           THEN "analyze" ELSE "scrape_all"
                /\ UNCHANGED << sleepSecs, escaped >>
  /\ waited' = waited + TimeoutWait(inputs)
  /\ UNCHANGED << zone, insights, analysis, calls, new_content, timestamp,
                  file_sha, summary_file, ops, hook, day, tree, publishes, faulted >>

\* ----------------------------------------------------------- the generator
\* analyze_content (lines 237-272): the prompt is built from the scraped data
\* outside the try (lines 240-258), so an exception there leaves the function
\* and the cycle; the call and json.loads are inside the try.
Analyze(promptRaises, reply) ==
  /\ pc = "analyze"
  /\ IF promptRaises
       THEN ToHandler /\ UNCHANGED << insights, analysis, calls, content, failed, fetched >>
       ELSE /\ calls' = Append(calls, "analyze_content")
            /\ analysis' = reply
            /\ insights' = IF reply = "insights" THEN SomeInsights ELSE NoInsights
            \* content_data is not read after line 50
            /\ content' = EmptySnapshot /\ failed' = NoFailures /\ fetched' = NoFetch
            /\ pc' = "generate"
            /\ UNCHANGED << sleepSecs, escaped >>
  /\ UNCHANGED << host, waited, new_content, timestamp, file_sha, summary_file, ops,
                  hook, day, tree, publishes, faulted >>

\* generate_course_updates (lines 274-311): the prompt is json.dumps of what
\* json.loads gave (or of {}); the call is made whatever insights holds, and a
\* fault of the call or of json.loads gives {}.
Generate(reply) ==
  /\ pc = "generate"
  /\ calls' = Append(calls, "generate_course_updates")
  /\ new_content' = reply.dict
  /\ pc' = "publish"
  /\ UNCHANGED << host, waited, sleepSecs, escaped, content, failed, fetched,
                  insights, analysis, timestamp, file_sha,
                  summary_file, ops, hook, day, tree, publishes, faulted >>


\* ----------------------------------------------------------- the Publisher
Write(op, path, accepted) == [op |-> op, path |-> path, ok |-> accepted]
ChapterPath(ts) == << "chapter", ts >>
SummaryPath == << "summary", 0 >>

\* Lines 329-343: get_contents found the chapter, so update_file; it raised, so
\* the bare except goes to create_file.
AfterChapterRead_AlwaysCreate(found) == "chapter_create"
AfterChapterRead(found) == IF found THEN "chapter_update" ELSE "chapter_create"
\* update_file raised inside the same try: the bare except goes to create_file.
AfterChapterUpdate(accepted) == IF accepted THEN "summary_read" ELSE "chapter_create"
\* create_file raised inside the except clause: the except of line 351 prints
\* and update_course_repo returns without update_summary_file.
AfterChapterCreate_Always(accepted) == "summary_read"
AfterChapterCreate(accepted) == IF accepted THEN "summary_read" ELSE "deploy"

\* update_course_repo, lines 316-323: return on a falsy new_content; with a
\* new_chapter key take the day's timestamp and go on to the chapter; without
\* one, nothing is written and the function returns after line 349.
\* update_course_repo without the tests of lines 316 and 321.
PublishEnter_NoKeyTest ==
  /\ pc = "publish"
  /\ timestamp' = day
  /\ publishes' = publishes + 1
  /\ pc' = "chapter_read"
  /\ UNCHANGED << host, waited, sleepSecs, escaped, content, failed, fetched,
                  insights, analysis,
                  calls, new_content, file_sha, summary_file, ops, hook, day, tree,
                  faulted >>
PublishEnter ==
  /\ pc = "publish"
  /\ IF new_content # NoContent /\ "new_chapter" \in DOMAIN new_content
       THEN /\ timestamp' = day
            /\ publishes' = publishes + 1
            /\ pc' = "chapter_read"
       ELSE /\ pc' = "deploy"
            /\ UNCHANGED << timestamp, publishes >>
  /\ UNCHANGED << host, waited, sleepSecs, escaped, content, failed, fetched,
                  insights, analysis,
                  calls, new_content, file_sha, summary_file, ops, hook, day, tree,
                  faulted >>

\* Line 330: get_contents(filename); on any exception the bare except of line
\* 337 goes to create_file.
ChapterRead(fault) ==
  /\ pc = "chapter_read"
  /\ LET found == Found(chapters[timestamp], fault)
     IN  /\ file_sha' = IF found THEN Sha(chapters[timestamp]) ELSE NoSha
         /\ pc' = AfterChapterRead(found)
  /\ faulted' = (faulted \/ fault)
  /\ UNCHANGED << host, waited, sleepSecs, escaped, content, failed, fetched,
                  insights, analysis,
                  calls, new_content, timestamp, summary_file, ops, hook, day, tree,
                  publishes >>

\* Lines 331-336: update_file with file.sha; an exception here is caught by the
\* same bare except, which goes to create_file.
ChapterUpdate(fault) ==
  /\ pc = "chapter_update"
  /\ LET accepted == UpdateAccepted(ChapterToken(file_sha, Sha(chapters[timestamp])),
                                    chapters[timestamp], fault)
     IN  /\ ops' = Append(ops, Write("update_file", ChapterPath(timestamp), accepted))
         /\ IF accepted
              THEN /\ chapters' = [chapters EXCEPT ![timestamp] = new_content["new_chapter"]]
                   /\ history' = Append(history, [op |-> "update_file", day |-> timestamp,
                                                  text |-> new_content["new_chapter"]])
              ELSE UNCHANGED << chapters, history >>
         /\ pc' = AfterChapterUpdate(accepted)
  /\ faulted' = (faulted \/ fault)
  /\ UNCHANGED << host, waited, sleepSecs, escaped, content, failed, fetched,
                  insights, analysis,
                  calls, new_content, timestamp, file_sha, summary_file, hook, day,
                  summary, edits, publishes >>

\* Lines 339-343: create_file; an exception here reaches the except of line 351,
\* which prints and returns, so update_summary_file is not called.
ChapterCreate(fault) ==
  /\ pc = "chapter_create"
  /\ LET accepted == CreateAccepted(chapters[timestamp], fault)
     IN  /\ ops' = Append(ops, Write("create_file", ChapterPath(timestamp), accepted))
         /\ IF accepted
              THEN /\ chapters' = [chapters EXCEPT ![timestamp] = new_content["new_chapter"]]
                   /\ history' = Append(history, [op |-> "create_file", day |-> timestamp,
                                                  text |-> new_content["new_chapter"]])
              ELSE UNCHANGED << chapters, history >>
         /\ pc' = AfterChapterCreate(accepted)
  /\ faulted' = (faulted \/ fault)
  /\ UNCHANGED << host, waited, sleepSecs, escaped, content, failed, fetched,
                  insights, analysis,
                  calls, new_content, timestamp, file_sha, summary_file, hook, day,
                  summary, edits, publishes >>

\* update_summary_file, line 358: get_contents("book/src/SUMMARY.md"); an
\* exception is caught at line 376 and the function returns.
SummaryRead(fault) ==
  /\ pc = "summary_read"
  /\ IF ~fault
       THEN /\ summary_file' = [content |-> summary, sha |-> Sha(summary)]
            /\ pc' = "summary_update"
       ELSE /\ pc' = "deploy"
            /\ UNCHANGED summary_file
  /\ faulted' = (faulted \/ fault)
  /\ UNCHANGED << host, waited, sleepSecs, escaped, content, failed, fetched,
                  insights, analysis,
                  calls, new_content, timestamp, file_sha, ops, hook, day, tree,
                  publishes >>

\* Lines 362-374: the new line is appended to the content read and written
\* back with summary_file.sha; an exception is caught at line 376.
SummaryUpdate(fault) ==
  /\ pc = "summary_update"
  /\ LET accepted == UpdateAccepted(SummaryToken(summary_file, Sha(summary)),
                                    summary, fault)
     IN  /\ ops' = Append(ops, Write("update_file", SummaryPath, accepted))
         /\ summary' = IF accepted THEN NewSummary(summary_file.content, timestamp)
                                   ELSE summary
  /\ pc' = "deploy"
  /\ faulted' = (faulted \/ fault)
  /\ UNCHANGED << host, waited, sleepSecs, escaped, content, failed, fetched,
                  insights, analysis,
                  calls, new_content, timestamp, file_sha, summary_file, hook, day,
                  chapters, history, edits, publishes >>

\* deploy_updates (lines 379-390), called after every update_course_repo that
\* returned (line 59); then the cycle is complete and the long sleep starts.
\* deploy_updates without its try/except: the fault reaches line 64.
Deploy_NoTry(fault) ==
  /\ pc = "deploy"
  /\ hook' = IF fault THEN "failed" ELSE "dispatched"
  /\ IF fault THEN ToHandler
              ELSE pc' = "sleep" /\ sleepSecs' = CleanInterval /\ UNCHANGED escaped
  /\ UNCHANGED << host, waited, content, failed, fetched, insights, analysis, calls,
                  new_content, timestamp, file_sha, summary_file, ops, day, tree,
                  publishes, faulted >>
Deploy(fault) ==
  /\ pc = "deploy"
  /\ hook' = IF fault THEN "failed" ELSE "dispatched"
  /\ pc' = "sleep" /\ sleepSecs' = CleanInterval
  /\ UNCHANGED << host, waited, escaped, content, failed, fetched,
                  insights, analysis, calls,
                  new_content, timestamp, file_sha, summary_file, ops, day, tree,
                  publishes, faulted >>

\* ------------------------------------------------------------ environment
\* Somebody else creates or rewrites a chapter artifact, or adds a line to the
\* index, with or without a newline at its end.
ExternalChapterEdit(d) ==
  /\ edits < MaxEdits
  /\ chapters' = [chapters EXCEPT ![d] = External]
  /\ edits' = edits + 1
  /\ UNCHANGED << host, pc, waited, sleepSecs, escaped, locals, day, summary, history,
                  publishes, faulted >>

ExternalSummaryEdit(open) ==
  /\ edits < MaxEdits
  /\ summary' = Append(CloseLast(summary),
                       IF open THEN Unterminated(ExternalLine) ELSE ExternalLine)
  /\ edits' = edits + 1
  /\ UNCHANGED << host, pc, waited, sleepSecs, escaped, locals, day, chapters, history,
                  publishes, faulted >>

\* ---------------------------------------------------------- specifications
\* The inputs of the whole-cycle specifications: every origin of an adapter
\* fails, or every origin returns one item the adapter keeps.
OneFresh == Fetched(<< Entry(0) >>)
OneItem == Fetched(<< "ok" >>)
OnePost == Fetched(<< "relevant" >>)

Scrape ==
  \/ \E page \in {Fail, OneItem} : ScrapeApple(page)
  \/ \E feed \in {Fail, OneFresh} : ScrapeYoutube([i \in 1..NumChannels |-> feed])
  \/ \E page \in {Fail, OneItem} : ScrapeGithub(page)
  \/ \E feed \in {Fail, OneFresh} : ScrapeBlog(feed)
  \/ \E listing \in {Fail, OnePost} : ScrapeReddit([i \in 1..NumSubreddits |-> listing])

Generator ==
  \/ \E raises \in BOOLEAN, reply \in AnalysisReplies : Analyze(raises, reply)
  \/ \E reply \in GenerationReplies(publishes < MaxPublish) : Generate(reply)

Publisher ==
  \/ PublishEnter
  \/ \E fault \in BOOLEAN : ChapterRead(fault)
  \/ \E fault \in BOOLEAN : ChapterUpdate(fault)
  \/ \E fault \in BOOLEAN : ChapterCreate(fault)
  \/ \E fault \in BOOLEAN : SummaryRead(fault)
  \/ \E fault \in BOOLEAN : SummaryUpdate(fault)

Hook == \E fault \in BOOLEAN : Deploy(fault)

\* A step of the agent in which every remote call returns or raises.
AgentStep == Scrape \/ Generator \/ Publisher \/ Hook \/ Sleep

\* The agent alone on the content tree.
Next == AgentStep
Spec == Init /\ [][Next]_vars

\* Every await of the agent returns or raises: the event loop then runs the
\* next step of the only task there is.
FairSpec == Spec /\ WF_vars(AgentStep)

\* scrape_all_sources with origins that answer, fail at once or do not answer
\* before the timeout of the session.
Answers(one) == {one, Fail, TimedOut}
HangNext ==
  \/ \E page \in Answers(OneItem) : ScrapeApple(page)
  \/ \E feeds \in [1..NumChannels -> Answers(OneFresh)] : ScrapeYoutube(feeds)
  \/ \E page \in Answers(OneItem) : ScrapeGithub(page)
  \/ \E feed \in Answers(OneFresh) : ScrapeBlog(feed)
  \/ \E listings \in [1..NumSubreddits -> Answers(OnePost)] : ScrapeReddit(listings)
HangSpec == Init /\ [][HangNext]_vars

\* The agent and external edits of the content tree; the sources and the
\* generator answer, so that every cycle reaches the Publisher.
ScrapeOk ==
  \/ ScrapeApple(OneItem)
  \/ ScrapeYoutube([i \in 1..NumChannels |-> OneFresh])
  \/ ScrapeGithub(OneItem)
  \/ ScrapeBlog(OneFresh)
  \/ ScrapeReddit([i \in 1..NumSubreddits |-> OnePost])

GeneratorOk ==
  \/ Analyze(FALSE, "insights")
  \/ \E reply \in {r \in GenerationReplies(publishes < MaxPublish) : r.fault = "none"} :
       Generate(reply)

ExternalEdit ==
  \/ \E d \in Days : ExternalChapterEdit(d)
  \/ \E open \in BOOLEAN : ExternalSummaryEdit(open)

EditNext == ScrapeOk \/ GeneratorOk \/ Publisher \/ Hook \/ Sleep \/ ExternalEdit
EditSpec == Init /\ [][EditNext]_vars

\* scrape_all_sources alone.  The adapters with several origins or with a loop
\* an item can end (YouTube, Reddit, Apple docs) get every input of up to
\* MaxFeed entries for one of their first origins, and a failing fetch or one
\* item they keep for the others; the other two a failing fetch, one item they keep or
\* one item they skip.  The feed adapters also get feeds longer than the
\* FeedCap entries they read, and Reddit listings of three posts.
Pages(kinds) == {Fail} \cup {Fetched(items) : items \in SeqsUpTo(kinds, MaxFeed)}
FeedEntries(window) ==
  {Entry(Window(window)), Entry(Window(window) + 1), Undated, Incomplete(Window(window))}
Feeds(window) == Pages(FeedEntries(window))
\* Feeds of one entry more than the adapters read: one kind of entry at one
\* place (the second, the last one read or the first one not read), another
\* kind everywhere else.
LongFeeds(window) ==
  {Fetched([i \in 1..(FeedCap + 1) |-> IF i = j THEN x ELSE y]) :
     j \in {2, FeedCap, FeedCap + 1}, x \in FeedEntries(window), y \in FeedEntries(window)}
OneStale(window) == Fetched(<< Entry(Window(window) + 1) >>)
\* An entry older than the window and without a field of the record, then an
\* entry at the boundary.
StaleIncomplete(window) ==
  Fetched(<< Incomplete(Window(window) + 1), Entry(Window(window)) >>)
OneUntitled == Fetched(<< "untitled" >>)
OneOther == Fetched(<< "other" >>)
\* Listings of three posts: a post the adapter keeps after two of any kind, so
\* that a post with a missing key comes after kept posts and before others.
PostKinds == {"relevant", "other", "bad"}
LongListings == {Fetched(<< a, b, "relevant" >>) : a \in PostKinds, b \in PostKinds}

\* The payloads of the three channels: every feed for one of the first two
\* channels next to channels that fail or give one fresh video, or a long feed
\* between two channels that give one.
YoutubeInputs ==
  {<< feed, other, last >> : feed \in Feeds(YoutubeWindowDays),
                             other \in {Fail, OneFresh}, last \in {Fail, OneFresh}}
  \cup {<< other, feed, OneFresh >> : other \in {Fail, OneFresh},
                                      feed \in Feeds(YoutubeWindowDays)}
  \cup {<< OneFresh, long, OneFresh >> : long \in LongFeeds(YoutubeWindowDays)}

ScrapeAny ==
  \/ \E page \in Pages({"ok", "untitled", "badlink"}) : ScrapeApple(page)
  \/ \E feeds \in YoutubeInputs : ScrapeYoutube(feeds)
  \/ \E page \in {Fail, OneItem, OneUntitled} : ScrapeGithub(page)
  \/ \E feed \in {Fail, OneFresh, OneStale(BlogWindowDays), StaleIncomplete(BlogWindowDays)}
                 \cup LongFeeds(BlogWindowDays) :
       ScrapeBlog(feed)
  \/ \E first \in Pages({"relevant", "bad"}) \cup {OneOther} \cup LongListings,
        last \in {Fail, OnePost} :
       ScrapeReddit(<< first, last >>)

\* The host is at any of the offsets.
ScrapeInit == \E z \in ZoneOffsets : Started("scrape_apple", z)
ScrapeSpec == ScrapeInit /\ [][ScrapeAny]_vars

\* The five adapter calls completing in any order, on a host at any of the
\* offsets.
OrderInit == \E z \in ZoneOffsets : Started("scrape_all", z)
OrderNext ==
  \/ \E page \in {Fail, OneItem, OneUntitled} : Complete("apple_updates", << page >>)
  \/ \E feeds \in [1..NumChannels -> {Fail, OneFresh}] : Complete("youtube_videos", feeds)
  \/ \E page \in {Fail, OneItem} : Complete("github_trending", << page >>)
  \/ \E feed \in {Fail, OneFresh, OneStale(BlogWindowDays)} :
       Complete("swift_blog", << feed >>)
  \/ \E listings \in [1..NumSubreddits -> {Fail, OnePost}] :
       Complete("reddit_discussions", listings)
OrderSpec == OrderInit /\ [][OrderNext]_vars


\* ------------------------------------------------------------------ claims
Range(s) == {s[i] : i \in DOMAIN s}
ChapterWrites(d) == SelectSeq(history, LAMBDA w : w.day = d)
InPublisherChapter == pc \in {"chapter_read", "chapter_update", "chapter_create"}
Wrote == \E i \in DOMAIN ops : ops[i].ok
WriteFailed == \E i \in DOMAIN ops : ~ops[i].ok
AnalysisFailed == analysis \in {"malformed", "error"}

\* C1: with no fault of a content-tree call (and, under Spec, no external
\* edit), the chapter writes of a day are one create_file followed by
\* update_file only, one write for each Publisher run: two runs on a day whose
\* chapter was absent make one creation followed by one update.
C1_CreateThenUpdate ==
  (~faulted /\ ~InPublisherChapter) =>
    /\ Len(history) = publishes
    /\ \A d \in Days : \A i \in DOMAIN ChapterWrites(d) :
         ChapterWrites(d)[i].op = IF i = 1 THEN "create_file" ELSE "update_file"

C1_Witness ==
  /\ ~faulted /\ pc = "sleep"
  /\ \E d \in Days, c \in Contents :
       history = << [op |-> "create_file", day |-> d, text |-> c],
                    [op |-> "update_file", day |-> d, text |-> c] >>

\* C2: after the Publisher runs of a behaviour without faults, the index holds
\* exactly one reference line for each chapter path that was published.
C2_OneReferenceLine ==
  (~faulted /\ pc = "sleep") =>
    \A d \in Days :
      Count(summary, Reference(d)) = IF ChapterWrites(d) # << >> THEN 1 ELSE 0

\* C3: at the end of a cycle, deploy_updates was invoked if and only if the
\* Publisher changed an artifact in that cycle.
C3_HookIffChanged ==
  pc = "sleep" => ((hook # "none") <=> Wrote)

\* C4: in a cycle where the generator call of analyze_content failed,
\* generate_course_updates does not call the generator, and no exception
\* reaches the scheduler.
C4_NoSecondCall ==
  AnalysisFailed => ("generate_course_updates" \notin Range(calls) /\ ~escaped)

\* C5: a cycle in which the generator returned malformed text to
\* analyze_content ends with no write attempted and with the long sleep.
C5_MalformedNoWrites ==
  (analysis = "malformed" /\ pc = "sleep") =>
    (ops = << >> /\ sleepSecs = LongInterval)

\* C6: a cycle in which a Publisher write failed ends with the short sleep and
\* without the deploy hook.
C6_WriteFaultBacksOff ==
  (pc = "sleep" /\ WriteFailed) => (sleepSecs = ShortInterval /\ hook = "none")

\* C7: the sleep after a cycle is the long one exactly when no exception left
\* the cycle's steps and the short one exactly when one did; every sleep is
\* followed by a new cycle at the scraping step, and cycles never stop.
C7_SchedulerNeverStops ==
  /\ [](pc = "sleep" =>
          /\ (sleepSecs = LongInterval <=> ~escaped)
          /\ (sleepSecs = ShortInterval <=> escaped))
  /\ ((pc = "sleep") ~> (pc = "scrape_apple" /\ FreshLocals))
  /\ []<>(pc = "sleep")

C7_Witness == pc = "sleep" /\ escaped /\ sleepSecs = ShortInterval

\* C8 as stated: an adapter with a failed fetch returns the empty list, and no
\* exception leaves an adapter.
C8_FailureYieldsEmpty ==
  /\ ~escaped
  /\ \A t \in Tags : failed[t] # {} => content[t] = << >>

\* C8 amended: an origin whose fetch failed contributes no record, an adapter
\* with one origin then returns the empty list, and no exception leaves an
\* adapter.
SingleOrigin == {"apple_updates", "github_trending", "swift_blog"}
C8_FailedOriginContributesNothing ==
  /\ ~escaped
  /\ \A t \in Tags :
       /\ \A i \in DOMAIN content[t] : content[t][i].origin \notin failed[t]
       /\ ((t \in SingleOrigin /\ failed[t] # {}) => content[t] = << >>)

C8_Witness ==
  /\ pc = "analyze"
  /\ failed["youtube_videos"] = {2}
  /\ Len(content["youtube_videos"]) = 2
  /\ failed["apple_updates"] = {1} /\ content["apple_updates"] = << >>

\* C9: the wait for adapters whose fetches do not answer is bounded by the
\* timeout, not by the sum of the timeouts: when the Analysis Step is reached,
\* scrape_all_sources has waited at most one timeout.
C9_WaitWithinTimeout == pc = "analyze" => waited <= SessionTimeout

\* C10: the Publisher replaces the content of an artifact only when the
\* artifact is still what get_contents returned (or, for the chapter, the path
\* is free); a content an external edit put there after the read stays.
C10_NoLostUpdate ==
  [][/\ ((pc \in {"chapter_update", "chapter_create"} /\ pc' # pc /\ chapters' # chapters)
          => (\/ chapters[timestamp] = Absent
              \/ (pc = "chapter_update" /\ Sha(chapters[timestamp]) = file_sha)))
      /\ ((pc = "summary_update" /\ pc' # pc /\ summary' # summary)
          => (/\ Sha(summary) = summary_file.sha
              /\ summary = summary_file.content))]_vars

\* An external edit fell between the read and the writes of the chapter, both
\* writes were refused and the edit is still there.
C10_Witness ==
  /\ pc = "deploy" /\ ~faulted
  /\ Len(ops) = 2 /\ ~ops[1].ok /\ ~ops[2].ok
  /\ ops[1].op = "update_file" /\ ops[2].op = "create_file"
  /\ chapters[timestamp] = External

\* C11 as stated: a dated entry among the first FeedCap of a fetched feed is
\* in the output of the feed adapter if and only if its age is at most the
\* adapter's window.
FeedTags == {"youtube_videos", "swift_blog"}
WindowOf(tag) ==
  IF tag = "youtube_videos" THEN Window(YoutubeWindowDays) ELSE Window(BlogWindowDays)
Included(tag, origin, j) ==
  \E i \in DOMAIN content[tag] : content[tag][i] = Record(tag, origin, j)
\* The entries at which the loop over a payload raises: a feed entry without a
\* usable date, or let through by the comparison and without a field of the
\* record; a Reddit post with a missing key.
Faults(tag, e) ==
  IF tag \in FeedTags THEN ~e.dated \/ (e.age + zone <= WindowOf(tag) /\ ~e.complete)
  ELSE e = "bad"
C11_FreshIffIncluded ==
  fetched.tag \in FeedTags =>
    \A o \in DOMAIN fetched.inputs :
      LET feed == fetched.inputs[o]
      IN  feed.ok =>
            \A j \in 1..Len(feed.items) :
              (j <= FeedCap /\ feed.items[j].dated) =>
                (Included(fetched.tag, o, j) <=> feed.items[j].age <= WindowOf(fetched.tag))

\* The snapshot of scrape_all_sources as written, the calls completing in the
\* order of the source, on the payloads the completed adapters were given.
RECURSIVE InSourceOrder(_, _)
InSourceOrder(snapshot, i) ==
  IF i > Len(SourceOrder) THEN snapshot
  ELSE InSourceOrder(Assigned(snapshot, SourceOrder[i],
                              Called(SourceOrder[i], given[SourceOrder[i]], zone).records),
                     i + 1)

\* C12: in whatever order the five adapter calls complete, the snapshot is the
\* one the order of the source gives on the same payloads, and the sequence
\* under each tag is the list its adapter returned, in the adapter's order.
C12_OrderIndependent ==
  pc = "analyze" =>
    /\ content = InSourceOrder(EmptySnapshot, 1)
    /\ \A t \in Tags : content[t] = Called(t, given[t], zone).records

\* All five adapters have returned records, YouTube from two channels in the
\* order of the channels, and the adapters completed in the reverse of the
\* order of the source: Apple docs, the first call, completed last.
C12_Witness ==
  /\ pc = "analyze" /\ fetched.tag = "apple_updates"
  /\ \A t \in Tags : content[t] # << >>
  /\ failed["youtube_videos"] = {2}
  /\ content["youtube_videos"] = << Record("youtube_videos", 1, 1),
                                   Record("youtube_videos", 3, 1) >>

\* C13: while the new_content of the cycle is empty or has no new_chapter key,
\* the Publisher issues no create_file and no update_file, for the chapter or
\* for the index, and does not even take a chapter path or read the tree.
C13_NoChapterNoWrites ==
  "new_chapter" \notin DOMAIN new_content =>
    (ops = << >> /\ timestamp = 0 /\ file_sha = NoSha /\ summary_file = NoFile)

\* A cycle whose generated content has code updates but no chapter has gone
\* through the Publisher and the deploy hook.
C13_Witness ==
  /\ pc = "sleep" /\ ~escaped /\ hook # "none"
  /\ new_content = CodeOnly /\ ops = << >>

\* C14: every create_file of the cycle was issued for a chapter path that was
\* free: it was accepted, or it failed and the path is still free.  (With the
\* agent alone on the content tree, a path that holds a chapter after a refused
\* create_file held it when the Publisher read it.)
C14_CreateOnlyWhenAbsent ==
  \A i \in DOMAIN ops :
    ops[i].op = "create_file" => (ops[i].ok \/ chapters[timestamp] = Absent)

\* C15: at the end of a cycle in which create_file or update_file of the
\* chapter of the day was accepted, the index holds a reference line to that
\* chapter.
ChapterWritten ==
  \E i \in DOMAIN ops : ops[i].ok /\ ops[i].path = ChapterPath(timestamp)
C15_PublishedIsIndexed ==
  (pc = "sleep" /\ ChapterWritten) => Count(summary, Reference(timestamp)) >= 1

\* C16: a cycle whose deploy_updates failed ends like any complete cycle: no
\* exception reaches the except clause of the scheduler and the sleep is the
\* long one.
C16_HookFailureContained ==
  hook = "failed" => (pc = "sleep" /\ ~escaped /\ sleepSecs = LongInterval)

\* The chapter and the index were written and the workflow dispatch failed.
C16_Witness ==
  /\ hook = "failed" /\ pc = "sleep"
  /\ Len(ops) = 2 /\ ops[1].ok /\ ops[2].ok

\* C17: every reference line of the index names a chapter that is in the
\* content tree; update_summary_file runs only in a Publisher invocation whose
\* update_file or create_file of the chapter was accepted; and after a refused
\* create_file (the update, if any, was refused before it) the invocation is
\* over without update_summary_file.
C17_ReferencesPointToChapters ==
  /\ \A i \in DOMAIN summary :
       summary[i].kind = "reference" => chapters[summary[i].day] # Absent
  /\ (pc \in {"summary_read", "summary_update"} \/ summary_file # NoFile) => ChapterWritten
  /\ \A i \in DOMAIN ops :
       (ops[i].op = "create_file" /\ ~ops[i].ok) =>
         (i = Len(ops) /\ pc \in {"deploy", "sleep"} /\ summary_file = NoFile)

\* The index refers to the chapter of an earlier invocation, and in this one
\* update_file and create_file both failed.
C17_Witness ==
  /\ pc = "sleep" /\ Count(summary, Reference(timestamp)) = 1
  /\ Len(ops) = 2 /\ ops[1].op = "update_file" /\ ~ops[1].ok
  /\ ops[2].op = "create_file" /\ ~ops[2].ok

\* The adapters with several origins, the entries they read of a payload and
\* the entries they keep.
MultiTags == {"youtube_videos", "reddit_discussions"}
EntriesRead(tag, payload) ==
  IF tag \in FeedTags THEN Prefix(payload.items, FeedCap) ELSE payload.items
Keeps(tag, e) ==
  IF tag \in FeedTags THEN e.dated /\ e.age + zone <= WindowOf(tag) /\ e.complete
  ELSE e = "relevant"
\* The loop over the entries of a fetched payload raises at one of them.
LoopRaised(tag, payload) ==
  \E k \in DOMAIN EntriesRead(tag, payload) : Faults(tag, EntriesRead(tag, payload)[k])
\* The records of a tag are in the order of the origins, and within an origin
\* in the order of its entries.
InOriginOrder(tag) ==
  \A i \in DOMAIN content[tag], k \in DOMAIN content[tag] :
    i < k => \/ content[tag][i].origin < content[tag][k].origin
             \/ /\ content[tag][i].origin = content[tag][k].origin
                /\ content[tag][i].idx < content[tag][k].idx

\* C18: a fetch that fails costs a multi-origin adapter the records of that
\* origin only.  The result holds, in the order of the origins and of the
\* entries within an origin, only entries the adapter keeps of origins whose
\* fetch succeeded, and it holds every such entry of every origin whose fetch
\* succeeded and whose entries all went through the loop, whatever happened
\* to the fetches of the origins before and after it.
C18_FetchFaultIsolated ==
  fetched.tag \in MultiTags =>
    /\ InOriginOrder(fetched.tag)
    /\ \A i \in DOMAIN content[fetched.tag] :
         LET r == content[fetched.tag][i]
         IN  /\ r.origin \in DOMAIN fetched.inputs
             /\ fetched.inputs[r.origin].ok
             /\ r.idx \in DOMAIN EntriesRead(fetched.tag, fetched.inputs[r.origin])
             /\ Keeps(fetched.tag, fetched.inputs[r.origin].items[r.idx])
    /\ \A o \in DOMAIN fetched.inputs :
         (fetched.inputs[o].ok /\ ~LoopRaised(fetched.tag, fetched.inputs[o])) =>
           \A j \in DOMAIN EntriesRead(fetched.tag, fetched.inputs[o]) :
             Keeps(fetched.tag, fetched.inputs[o].items[j]) => Included(fetched.tag, o, j)

\* The fetch of the second channel failed: the video of the first channel is
\* kept, the third channel is still fetched and its video follows.
C18_Witness ==
  /\ fetched.tag = "youtube_videos"
  /\ fetched.inputs[1].ok /\ ~fetched.inputs[2].ok /\ fetched.inputs[3].ok
  /\ content["youtube_videos"] = << Record("youtube_videos", 1, 1),
                                   Record("youtube_videos", 3, 1) >>

\* C19: with the agent alone on the index, the header line occurs at most
\* once, it is there only when a reference line was appended, and every
\* reference line comes after it.
C19_OneHeaderBeforeReferences ==
  /\ Count(summary, Header) <= 1
  /\ Count(summary, Header) = 1 => \E i \in DOMAIN summary : summary[i].kind = "reference"
  /\ \A i \in DOMAIN summary :
       summary[i].kind = "reference" => \E h \in 1..(i - 1) : summary[h] = Header

\* Two Publisher invocations have appended their lines: the first added the
\* header, the second found it.
C19_Witness ==
  /\ pc = "sleep" /\ Len(summary) = 6
  /\ summary[3] = Header
  /\ summary[5].kind = "reference" /\ summary[6].kind = "reference"

====
